---- MODULE Spec2Model ----
(***************************************************************************)
(* A model of heimdall.py, a file integrity monitor: a directory is        *)
(* scanned into a snapshot (path -> FileInfo), the snapshot is compared    *)
(* with the stored baseline (compare_hashes, detect_moves), the change set *)
(* is reported and the new snapshot is saved as the next baseline.         *)
(*                                                                         *)
(* Two specifications share the variables:                                 *)
(*   SpecDiff  compare_hashes as a pure function of two snapshots, the     *)
(*             iteration order of its path sets chosen nondeterministically*)
(*   Spec      main(): invocations of the program (single run and watch    *)
(*             mode) against a file system and a store file that the       *)
(*             environment changes between the program's steps.            *)
(*                                                                         *)
(* mtime is st_mtime in whole seconds; sizes and digests are opaque values *)
(* that the code only compares for equality.                               *)
(***************************************************************************)
EXTENDS Integers, Sequences, FiniteSets, TLC

VARIABLES
    pc,              \* position in main() / of the comparison
    old_file_infos,  \* main.old_file_infos: the in-memory baseline
    new_file_infos,  \* the snapshot of the latest scan_folder
    added,           \* actual_added    of the latest compare_hashes (a list)
    deleted,         \* actual_deleted  of the latest compare_hashes (a list)
    modified,        \* modified_files  of the latest compare_hashes (a list)
    moves,           \* moves           of the latest compare_hashes (a list of pairs)
    added_files,     \* list(new_files - old_files): the set in iteration order
    deleted_files,   \* list(old_files - new_files): the set in iteration order
    diff_old,        \* the old_infos argument of the latest compare_hashes
    fs,              \* the monitored folder: path -> [hash, mtime, size]
    ignore_patterns, \* the patterns of the folder's .heimdallignore
    scan_errors,     \* the files whose stat or hashing failed in the latest scan
    store,           \* the content of the store file db_path
    watch,           \* args.watch of the running invocation
    is_dir,          \* folder_path.is_dir() of the latest invocation
    algorithm,       \* args.algorithm of the latest invocation
    hash_func,       \* the algorithm the hash_func of get_hasher computes
    loaded,          \* the store file load_hash_db read at the start of the invocation
    reported,        \* what the program printed last: the baseline, changes, no changes
    last_save,       \* how the latest save_hash_db ended
    exit_status,     \* how the latest invocation ended
    runs,            \* invocations started so far
    cycles,          \* check_changes calls of the running invocation
    edits            \* changes the environment made to the folder so far

vars == <<pc, old_file_infos, new_file_infos, added, deleted, modified, moves,
          added_files, deleted_files, diff_old, fs, ignore_patterns,
          scan_errors, store, watch, is_dir, algorithm, hash_func, loaded, reported, last_save, exit_status,
          runs, cycles, edits>>

---------------------------------------------------------------------------
(* Bounds of the comparison's inputs *)

\* Paths of the snapshots compared under SpecDiff: the old snapshot is over
\* a subset of OldPaths, the new one over a subset of DiffPaths.
OldPaths == {"/a", "/b"}

DiffPaths == {"/a", "/b", "/c", "/d"}

\* Content digests (hexdigest strings in the code).
Digests == {"D1", "D2"}

\* File sizes (st_size); the code only tests them for equality.
Sizes == {10, 11}

\* mtimes are 0..MaxMtime seconds.
MaxMtime == 2

\* The new snapshot under SpecDiff holds at most as many files as the old
\* one can.
MaxDiffFiles == Cardinality(OldPaths)

\* detect_moves: abs(old_info.mtime - new_info.mtime) < 2
MoveWindow == 2

Mtimes == 0 .. MaxMtime

---------------------------------------------------------------------------
(* Helpers *)

Abs(x) == IF x < 0 THEN -x ELSE x

Min(a, b) == IF a < b THEN a ELSE b

Range(s) == {s[i] : i \in 1 .. Len(s)}

\* The orders in which Python may iterate over a set: every enumeration of
\* S without repetition.
Orders(S) ==
    {s \in [1 .. Cardinality(S) -> S] : \A x \in S : \E i \in DOMAIN s : s[i] = x}

EmptySnapshot == [p \in {} |-> 0]

---------------------------------------------------------------------------
(* class FileInfo *)

FileInfo(path, hash_val, mtime, size) ==
    [path |-> path, hash |-> hash_val, mtime |-> mtime, size |-> size]

\* The snapshots over the path set S: a dict path -> FileInfo whose path
\* field is its key.
SnapshotsOver(S) ==
    {[p \in S |-> FileInfo(p, m[p].hash, m[p].mtime, m[p].size)] :
        m \in [S -> [hash : Digests, mtime : Mtimes, size : Sizes]]}

OldSnapshots == UNION {SnapshotsOver(S) : S \in SUBSET OldPaths}

NewSnapshots ==
    UNION {SnapshotsOver(S) :
             S \in {T \in SUBSET DiffPaths : Cardinality(T) <= MaxDiffFiles}}

---------------------------------------------------------------------------
(* detect_moves *)

\* hash_to_deleted[file_hash] / hash_to_added[file_hash]: the paths of the
\* list whose record has that digest, in the order of the list.
RECURSIVE hash_bucket(_, _, _)
hash_bucket(files, infos, file_hash) ==
    IF files = <<>> THEN <<>>
    ELSE LET path == Head(files)
             rest == hash_bucket(Tail(files), infos, file_hash)
         IN  IF path \in DOMAIN infos /\ infos[path].hash = file_hash
             THEN <<path>> \o rest
             ELSE rest

\* The keys of hash_to_deleted in insertion order: each digest where it
\* first occurs in deleted_files.
RECURSIVE hash_keys(_, _, _)
hash_keys(files, infos, seen) ==
    IF files = <<>> THEN <<>>
    ELSE LET path == Head(files)
         IN  IF path \in DOMAIN infos /\ infos[path].hash \notin seen
             THEN <<infos[path].hash>>
                  \o hash_keys(Tail(files), infos, seen \cup {infos[path].hash})
             ELSE hash_keys(Tail(files), infos, seen)

\* A compatibility check whose window includes its bound.
move_compatible_inclusive(old_info, new_info) ==
    /\ old_info.size = new_info.size
    /\ Abs(old_info.mtime - new_info.mtime) <= MoveWindow

\* The compatibility check of a candidate pair.
move_compatible(old_info, new_info) ==
    /\ old_info.size = new_info.size
    /\ Abs(old_info.mtime - new_info.mtime) < MoveWindow

\* A pairing that takes the first added path for every deleted path.
RECURSIVE pair_bucket_first_added(_, _, _, _, _, _)
pair_bucket_first_added(deleted_paths, added_paths, old_infos, new_infos, i, min_pairs) ==
    IF i > min_pairs THEN <<>>
    ELSE LET old_path == deleted_paths[i]
             new_path == added_paths[1]
             rest == pair_bucket_first_added(deleted_paths, added_paths,
                                             old_infos, new_infos, i + 1,
                                             min_pairs)
         IN  IF move_compatible(old_infos[old_path], new_infos[new_path])
             THEN <<(<<old_path, new_path>>)>> \o rest
             ELSE rest

\* for i in range(min_pairs): the moves appended for one digest, from
\* index i on.
RECURSIVE pair_bucket(_, _, _, _, _, _)
pair_bucket(deleted_paths, added_paths, old_infos, new_infos, i, min_pairs) ==
    IF i > min_pairs THEN <<>>
    ELSE LET old_path == deleted_paths[i]
             new_path == added_paths[i]
             rest == pair_bucket(deleted_paths, added_paths, old_infos,
                                 new_infos, i + 1, min_pairs)
         IN  IF move_compatible(old_infos[old_path], new_infos[new_path])
             THEN <<(<<old_path, new_path>>)>> \o rest
             ELSE rest

\* for file_hash in hash_to_deleted: if file_hash in hash_to_added: ...
RECURSIVE pair_hashes(_, _, _, _, _)
pair_hashes(keys, dfiles, afiles, old_infos, new_infos) ==
    IF keys = <<>> THEN <<>>
    ELSE LET file_hash == Head(keys)
             deleted_paths == hash_bucket(dfiles, old_infos, file_hash)
             added_paths == hash_bucket(afiles, new_infos, file_hash)
             min_pairs == Min(Len(deleted_paths), Len(added_paths))
         IN  pair_bucket(deleted_paths, added_paths, old_infos, new_infos,
                         1, min_pairs)
             \o pair_hashes(Tail(keys), dfiles, afiles, old_infos, new_infos)

\* A detect_moves that leaves the moved paths in actual_added.
detect_moves_keeps_added(afiles, dfiles, old_infos, new_infos) ==
    LET mv == pair_hashes(hash_keys(dfiles, old_infos, {}), dfiles, afiles,
                          old_infos, new_infos)
        moved_old_paths == {mv[i][1] : i \in 1 .. Len(mv)}
        NotMovedOld(path) == path \notin moved_old_paths
    IN  [moves |-> mv,
         actual_added |-> afiles,
         actual_deleted |-> SelectSeq(dfiles, NotMovedOld)]

detect_moves(afiles, dfiles, old_infos, new_infos) ==
    LET mv == pair_hashes(hash_keys(dfiles, old_infos, {}), dfiles, afiles,
                          old_infos, new_infos)
        moved_old_paths == {mv[i][1] : i \in 1 .. Len(mv)}
        moved_new_paths == {mv[i][2] : i \in 1 .. Len(mv)}
        NotMovedNew(path) == path \notin moved_new_paths
        NotMovedOld(path) == path \notin moved_old_paths
    IN  [moves |-> mv,
         actual_added |-> SelectSeq(afiles, NotMovedNew),
         actual_deleted |-> SelectSeq(dfiles, NotMovedOld)]

---------------------------------------------------------------------------
(* compare_hashes *)

\* new_files - old_files
added_paths_of(old_infos, new_infos) == DOMAIN new_infos \ DOMAIN old_infos

\* A deleted set that forgets to subtract the new files.
deleted_paths_of_all(old_infos, new_infos) == DOMAIN old_infos

\* old_files - new_files
deleted_paths_of(old_infos, new_infos) == DOMAIN old_infos \ DOMAIN new_infos

\* new_files & old_files
common_paths_of(old_infos, new_infos) == DOMAIN new_infos \cap DOMAIN old_infos

\* A comparison of the whole record instead of the digest.
modified_of_any_field(common, old_infos, new_infos) ==
    LET Differs(path) ==
          \/ new_infos[path].hash # old_infos[path].hash
          \/ new_infos[path].mtime # old_infos[path].mtime
          \/ new_infos[path].size # old_infos[path].size
    IN  SelectSeq(common, Differs)

\* for path in new_files & old_files: if the digests differ, append.
\* common is the intersection in iteration order.
modified_of(common, old_infos, new_infos) ==
    LET Differs(path) == new_infos[path].hash # old_infos[path].hash
    IN  SelectSeq(common, Differs)

\* compare_hashes(old_infos, new_infos), given the orders in which the
\* three path sets are iterated.
compare_hashes(old_infos, new_infos, afiles, dfiles, common) ==
    LET dm == detect_moves(afiles, dfiles, old_infos, new_infos)
    IN  [added |-> dm.actual_added,
         deleted |-> dm.actual_deleted,
         modified |-> modified_of(common, old_infos, new_infos),
         moves |-> dm.moves]


---------------------------------------------------------------------------
(* SpecDiff: compare_hashes on every pair of snapshots *)

\* The variables of main() that a bare comparison does not use.
IdleMain ==
    /\ fs = EmptySnapshot
    /\ ignore_patterns = <<>>
    /\ scan_errors = {}
    /\ store = [kind |-> "missing", data |-> EmptySnapshot]
    /\ watch = FALSE
    /\ is_dir = TRUE
    /\ algorithm = "sha256"
    /\ hash_func = "sha256"
    /\ loaded = [kind |-> "nothing", data |-> EmptySnapshot]
    /\ reported = "nothing"
    /\ last_save = "none"
    /\ exit_status = "none"
    /\ runs = 0
    /\ cycles = 0
    /\ edits = 0

InitDiff ==
    /\ pc = "diff"
    /\ old_file_infos \in OldSnapshots
    /\ new_file_infos = EmptySnapshot
    /\ diff_old = EmptySnapshot
    /\ added = <<>>
    /\ deleted = <<>>
    /\ modified = <<>>
    /\ moves = <<>>
    /\ added_files = <<>>
    /\ deleted_files = <<>>
    /\ IdleMain

\* The effect of one call compare_hashes(old_infos, new_infos) on the
\* variables that hold its arguments, its path lists and its result.
Compared(old_infos, new_infos) ==
    \E afiles \in Orders(added_paths_of(old_infos, new_infos)),
       dfiles \in Orders(deleted_paths_of(old_infos, new_infos)),
       common \in Orders(common_paths_of(old_infos, new_infos)) :
      LET r == compare_hashes(old_infos, new_infos, afiles, dfiles, common)
      IN  /\ diff_old' = old_infos
          /\ new_file_infos' = new_infos
          /\ added_files' = afiles
          /\ deleted_files' = dfiles
          /\ added' = r.added
          /\ deleted' = r.deleted
          /\ modified' = r.modified
          /\ moves' = r.moves

\* One call compare_hashes(old_file_infos, new) for a snapshot new.
CompareHashes ==
    /\ pc = "diff"
    /\ \E new \in NewSnapshots : Compared(old_file_infos, new)
    /\ pc' = "compared"
    /\ UNCHANGED <<old_file_infos, fs, ignore_patterns, scan_errors, store,
                   watch, is_dir, algorithm, hash_func, loaded, reported, last_save, exit_status, runs,
                   cycles, edits>>

NextDiff == CompareHashes

SpecDiff == InitDiff /\ [][NextDiff]_vars

---------------------------------------------------------------------------
(* Bounds of main() and of its environment *)

\* Files of the monitored folder, named relative to it.
RunPaths == {"x.txt", "z.log"}

\* What the folder's .heimdallignore can hold when an invocation reads it.
IgnoreFiles == {<<>>, <<"# logs", "*.log">>}

\* Invocations of the program.
MaxRuns == 2

\* check_changes calls of one invocation in watch mode.
MaxCycles == 2

\* Changes the environment makes to the folder.
MaxEdits == 2

\* Files whose stat or hashing fails in one scan.
MaxScanErrors == 1

FileMetas == [hash : Digests, mtime : Mtimes, size : Sizes]

\* The folder before the first invocation: empty, or holding one file.
InitialFolders ==
    {EmptySnapshot, [path \in {"x.txt"} |-> [hash |-> "D1", mtime |-> 0, size |-> 10]]}

---------------------------------------------------------------------------
(* FileInfo.to_dict, FileInfo.from_dict and the store file *)

to_dict(info) == [hash |-> info.hash, mtime |-> info.mtime, size |-> info.size]

\* A from_dict that passes size and mtime in the wrong order.
from_dict_swaps(path, data) == FileInfo(path, data.hash, data.size, data.mtime)

from_dict(path, data) == FileInfo(path, data.hash, data.mtime, data.size)

\* The store file db_path. kind is
\*   "missing"      no file
\*   "not_json"     text that is no JSON document
\*   "not_mapping"  a JSON document that is no object (a list, a number)
\*   "bad_entry"    an object with a value that is no object (a number)
\*   "missing_key"  an object with a record that lacks hash, mtime or size
\*   "partial"      a prefix of the text json.dump writes, the empty one
\*                  included: what open(db_path, "w") and an unfinished
\*                  json.dump leave
\*   "snapshot"     the complete text of a snapshot: data is path -> to_dict
StoreFile(kind) == [kind |-> kind, data |-> EmptySnapshot]

SnapshotFile(file_infos) ==
    [kind |-> "snapshot", data |-> [path \in DOMAIN file_infos |-> to_dict(file_infos[path])]]

InitialStoreKinds == {"missing", "not_json", "not_mapping", "bad_entry", "missing_key"}

\* load_hash_db: raised is an exception that leaves the function.
\*   missing                       return {}
\*   not_json, partial             json.JSONDecodeError, caught: {}
\*   not_mapping                   data.items(): AttributeError, not caught
\*   bad_entry                     data["hash"]: TypeError, not caught
\*   missing_key                   KeyError, caught: {}
load_hash_db(file) ==
    CASE file.kind = "snapshot" ->
           [raised |-> FALSE,
            infos |-> [path \in DOMAIN file.data |-> from_dict(path, file.data[path])]]
      [] file.kind \in {"not_mapping", "bad_entry"} ->
           [raised |-> TRUE, infos |-> EmptySnapshot]
      [] OTHER -> [raised |-> FALSE, infos |-> EmptySnapshot]

---------------------------------------------------------------------------
(* load_ignore_patterns, should_ignore *)

IsComment(line) == line = "# logs"

\* [line.strip() for line in lines if line.strip() and not line.startswith("#")]
load_ignore_patterns(lines) ==
    LET Kept(line) == ~IsComment(line)
    IN  SelectSeq(lines, Kept)

\* The extension of a file name.
Ext(name) == IF name = "z.log" THEN "log" ELSE "txt"

\* fnmatch.fnmatch for the patterns of IgnoreFiles: "*.log" matches the
\* names that end in ".log", any other text matches itself.
fnmatch(name, pattern) ==
    IF pattern = "*.log" THEN Ext(name) = "log" ELSE name = pattern

\* The files lie in the folder itself: a path is folder/name, and "*"
\* matches the folder part too, so the path and the basename match alike.
should_ignore(path, patterns) ==
    \E i \in DOMAIN patterns : fnmatch(path, patterns[i])

---------------------------------------------------------------------------
(* get_hasher *)

\* The names hashlib.new accepts; only sha256 is modelled.
ValidAlgorithms == {"sha256"}

\* What args.algorithm can be: the default and a name hashlib.new rejects.
Algorithms == {"sha256", "crc32"}

\* A get_hasher without the fallback.
get_hasher_keeps_name(alg) == alg

\* hashlib.new(alg) raises ValueError: "Falling back to sha256".
get_hasher(alg) == IF alg \in ValidAlgorithms THEN alg ELSE "sha256"

---------------------------------------------------------------------------
(* scan_folder *)

\* The files scan_folder tries to stat and hash.
scan_candidates(folder, patterns) ==
    {path \in DOMAIN folder : ~should_ignore(path, patterns)}

\* A loop that ends at the first file that fails.
RECURSIVE scan_files_breaks(_, _, _, _, _)
scan_files_breaks(files, folder, patterns, failing, file_infos) ==
    IF files = {} THEN file_infos
    ELSE LET path == CHOOSE q \in files : TRUE
             rest == files \ {path}
         IN  IF should_ignore(path, patterns)
             THEN scan_files_breaks(rest, folder, patterns, failing, file_infos)
             ELSE IF path \in failing
             THEN file_infos
             ELSE scan_files_breaks(rest, folder, patterns, failing,
                    [q \in DOMAIN file_infos \cup {path} |->
                       IF q = path
                       THEN FileInfo(path, folder[path].hash, folder[path].mtime, folder[path].size)
                       ELSE file_infos[q]])

\* The loop of scan_folder over the files os.walk lists, file_infos being
\* the dict built so far. failing: the files whose os.stat raises (the
\* except clause continues) or whose hash_func returns None (nothing is
\* recorded).
RECURSIVE scan_files(_, _, _, _, _)
scan_files(files, folder, patterns, failing, file_infos) ==
    IF files = {} THEN file_infos
    ELSE LET path == CHOOSE q \in files : TRUE
             rest == files \ {path}
         IN  IF should_ignore(path, patterns)
             THEN scan_files(rest, folder, patterns, failing, file_infos)
             ELSE IF path \in failing
             THEN scan_files(rest, folder, patterns, failing, file_infos)
             ELSE scan_files(rest, folder, patterns, failing,
                    [q \in DOMAIN file_infos \cup {path} |->
                       IF q = path
                       THEN FileInfo(path, folder[path].hash, folder[path].mtime, folder[path].size)
                       ELSE file_infos[q]])

scan_folder(folder, patterns, failing) ==
    scan_files(DOMAIN folder, folder, patterns, failing, EmptySnapshot)

ScanFailures(folder, patterns) ==
    {F \in SUBSET scan_candidates(folder, patterns) : Cardinality(F) <= MaxScanErrors}

---------------------------------------------------------------------------
(* main() *)

Init ==
    /\ pc = "idle"
    /\ old_file_infos = EmptySnapshot
    /\ new_file_infos = EmptySnapshot
    /\ diff_old = EmptySnapshot
    /\ added = <<>>
    /\ deleted = <<>>
    /\ modified = <<>>
    /\ moves = <<>>
    /\ added_files = <<>>
    /\ deleted_files = <<>>
    /\ fs \in InitialFolders
    /\ ignore_patterns = <<>>
    /\ scan_errors = {}
    /\ store \in {StoreFile(kind) : kind \in InitialStoreKinds}
    /\ watch = FALSE
    /\ is_dir = TRUE
    /\ algorithm = "sha256"
    /\ hash_func = "sha256"
    /\ loaded = StoreFile("nothing")
    /\ reported = "nothing"
    /\ last_save = "none"
    /\ exit_status = "none"
    /\ runs = 0
    /\ cycles = 0
    /\ edits = 0

resultvars == <<new_file_infos, added, deleted, modified, moves, added_files,
                deleted_files, diff_old>>

\* The locals of a fresh invocation.
FreshLocals ==
    /\ new_file_infos' = EmptySnapshot
    /\ added' = <<>>
    /\ deleted' = <<>>
    /\ modified' = <<>>
    /\ moves' = <<>>
    /\ added_files' = <<>>
    /\ deleted_files' = <<>>
    /\ scan_errors' = {}
    /\ cycles' = 0

\* main() up to and including old_file_infos = load_hash_db(db_path): a
\* folder that is no directory ends the invocation with return 1 before
\* anything is read; otherwise the ignore file is read, get_hasher is
\* called and the store is loaded.
Invoke ==
    /\ pc = "idle"
    /\ runs < MaxRuns
    /\ runs' = runs + 1
    /\ FreshLocals
    /\ \E w \in BOOLEAN : watch' = w
    /\ \E alg \in Algorithms : algorithm' = alg
    /\ \E d \in BOOLEAN : is_dir' = d
    /\ IF ~is_dir'
       THEN /\ pc' = "idle"
            /\ exit_status' = "1"
            /\ ignore_patterns' = <<>>
            /\ hash_func' = "none"
            /\ loaded' = StoreFile("nothing")
            /\ old_file_infos' = EmptySnapshot
       ELSE /\ \E lines \in IgnoreFiles : ignore_patterns' = load_ignore_patterns(lines)
            /\ hash_func' = get_hasher(algorithm')
            /\ loaded' = store
            /\ LET r == load_hash_db(store)
               IN  /\ old_file_infos' = r.infos
                   /\ IF r.raised
                      THEN pc' = "idle" /\ exit_status' = "load_raised"
                      ELSE /\ exit_status' = "running"
                           /\ pc' = IF r.infos = EmptySnapshot THEN "baseline" ELSE "check"
    /\ UNCHANGED <<diff_old, fs, store, reported, last_save, edits>>

\* if not old_file_infos: new_file_infos = scan_folder(...)
CreateBaseline ==
    /\ pc = "baseline"
    /\ \E F \in ScanFailures(fs, ignore_patterns) :
         /\ new_file_infos' = scan_folder(fs, ignore_patterns, F)
         /\ scan_errors' = F
    /\ pc' = "baseline_save"
    /\ last_save' = "none"
    /\ UNCHANGED <<old_file_infos, added, deleted, modified, moves, added_files,
                   deleted_files, diff_old, fs, ignore_patterns, store, watch, is_dir, algorithm, hash_func,
                   loaded, reported, exit_status, runs, cycles, edits>>

\* What follows save_hash_db: after the baseline "Baseline created" and
\* return 0; in check_changes "Database updated", then time.sleep in watch
\* mode and return 0 otherwise.
AfterSave ==
    IF pc \in {"baseline_save", "baseline_write"}
    THEN /\ reported' = "baseline"
         /\ exit_status' = "0"
         /\ pc' = "idle"
    ELSE /\ reported' = reported
         /\ exit_status' = IF watch THEN exit_status ELSE "0"
         /\ pc' = IF watch THEN "sleep" ELSE "idle"

\* save_hash_db, open(db_path, "w"): the file is truncated, or open raises
\* IOError, which is printed.
SaveOpen ==
    /\ pc \in {"baseline_save", "check_save"}
    /\ \/ /\ store' = StoreFile("partial")
          /\ pc' = IF pc = "baseline_save" THEN "baseline_write" ELSE "check_write"
          /\ UNCHANGED <<last_save, reported, exit_status>>
       \/ /\ last_save' = "failed"
          /\ AfterSave
          /\ UNCHANGED store
    /\ UNCHANGED <<old_file_infos, resultvars, fs, ignore_patterns, scan_errors,
                   watch, is_dir, algorithm, hash_func, loaded, runs, cycles, edits>>

\* save_hash_db, json.dump(data, f, indent=2): the text is written to the
\* end, or a write raises IOError, which is printed.
SaveWrite ==
    /\ pc \in {"baseline_write", "check_write"}
    /\ \/ /\ store' = SnapshotFile(new_file_infos)
          /\ last_save' = "ok"
       \/ /\ last_save' = "failed"
          /\ UNCHANGED store
    /\ AfterSave
    /\ UNCHANGED <<old_file_infos, resultvars, fs, ignore_patterns, scan_errors,
                   watch, is_dir, algorithm, hash_func, loaded, runs, cycles, edits>>

\* A baseline that takes the new records in and keeps the old ones.
next_baseline_merged(old_infos, new_infos) ==
    [path \in DOMAIN old_infos \cup DOMAIN new_infos |->
       IF path \in DOMAIN new_infos THEN new_infos[path] ELSE old_infos[path]]

\* A cycle with changes that leaves the in-memory baseline as it was.
next_baseline_stale(old_infos, new_infos) == old_infos

\* old_file_infos = new_file_infos: the baseline after a cycle with changes.
next_baseline(old_infos, new_infos) == new_infos

\* A cycle without changes that takes the new snapshot as baseline.
kept_baseline_refreshed(old_infos, new_infos) == new_infos

\* The else branch of check_changes assigns nothing: the baseline after a
\* cycle without changes.
kept_baseline(old_infos, new_infos) == old_infos

\* check_changes up to save_hash_db: scan, compare, and with changes the
\* report, the notification and old_file_infos = new_file_infos.
CheckChanges ==
    /\ pc = "check"
    /\ cycles' = cycles + 1
    /\ last_save' = "none"
    /\ \E F \in ScanFailures(fs, ignore_patterns) :
         /\ scan_errors' = F
         /\ Compared(old_file_infos, scan_folder(fs, ignore_patterns, F))
    /\ LET total_changes == Len(added') + Len(deleted') + Len(modified') + Len(moves')
       IN  IF total_changes > 0
           THEN /\ reported' = "changes"
                /\ old_file_infos' = next_baseline(old_file_infos, new_file_infos')
                /\ pc' = "check_save"
                /\ UNCHANGED exit_status
           ELSE /\ reported' = "no_changes"
                /\ old_file_infos' = kept_baseline(old_file_infos, new_file_infos')
                /\ exit_status' = IF watch THEN exit_status ELSE "0"
                /\ pc' = IF watch THEN "sleep" ELSE "idle"
    /\ UNCHANGED <<fs, ignore_patterns, store, watch, is_dir, algorithm, hash_func, loaded, runs, edits>>

\* time.sleep(args.interval) returns and the loop calls check_changes again.
Wake ==
    /\ pc = "sleep"
    /\ cycles < MaxCycles
    /\ pc' = "check"
    /\ UNCHANGED <<old_file_infos, resultvars, fs, ignore_patterns, scan_errors,
                   store, watch, is_dir, algorithm, hash_func, loaded, reported, last_save, exit_status, runs,
                   cycles, edits>>

\* KeyboardInterrupt: inside the watch loop's try it is caught and main
\* returns 0; anywhere else it ends the process with a traceback. An
\* interrupted json.dump leaves what it wrote.
Interrupt ==
    /\ pc # "idle"
    /\ exit_status' = IF watch /\ pc \in {"check", "check_save", "check_write", "sleep"}
                      THEN "0" ELSE "interrupted"
    /\ last_save' = IF pc \in {"baseline_write", "check_write"} THEN "failed" ELSE last_save
    /\ pc' = "idle"
    /\ UNCHANGED <<old_file_infos, resultvars, fs, ignore_patterns, scan_errors,
                   store, watch, is_dir, algorithm, hash_func, loaded, reported, runs, cycles, edits>>

progvars == <<pc, old_file_infos, resultvars, ignore_patterns, scan_errors, store,
              watch, is_dir, algorithm, hash_func, loaded, reported, last_save, exit_status, runs, cycles>>

\* The environment creates or rewrites a file of the folder.
WriteFile ==
    /\ edits < MaxEdits
    /\ edits' = edits + 1
    /\ \E path \in RunPaths, meta \in FileMetas :
         fs' = [q \in DOMAIN fs \cup {path} |-> IF q = path THEN meta ELSE fs[q]]
    /\ UNCHANGED progvars

\* The environment deletes a file.
DeleteFile ==
    /\ edits < MaxEdits
    /\ edits' = edits + 1
    /\ \E path \in DOMAIN fs : fs' = [q \in DOMAIN fs \ {path} |-> fs[q]]
    /\ UNCHANGED progvars

\* The environment renames a file; its content, size and mtime stay.
RenameFile ==
    /\ edits < MaxEdits
    /\ edits' = edits + 1
    /\ \E path \in DOMAIN fs, to \in RunPaths \ DOMAIN fs :
         fs' = [q \in (DOMAIN fs \ {path}) \cup {to} |->
                  IF q = to THEN fs[path] ELSE fs[q]]
    /\ UNCHANGED progvars

Next ==
    \/ Invoke
    \/ CreateBaseline
    \/ SaveOpen
    \/ SaveWrite
    \/ CheckChanges
    \/ Wake
    \/ Interrupt
    \/ WriteFile
    \/ DeleteFile
    \/ RenameFile

Spec == Init /\ [][Next]_vars

---------------------------------------------------------------------------
(* Properties of compare_hashes, stated on the state after a comparison:   *)
(* diff_old and new_file_infos are its arguments, added, deleted, modified *)
(* and moves its result.                                                   *)

Count(list, x) == Cardinality({i \in DOMAIN list : list[i] = x})

MovedOldPaths == {moves[i][1] : i \in DOMAIN moves}

MovedNewPaths == {moves[i][2] : i \in DOMAIN moves}

CountMovedOld(x) == Cardinality({i \in DOMAIN moves : moves[i][1] = x})

CountMovedNew(x) == Cardinality({i \in DOMAIN moves : moves[i][2] = x})

\* Present on both sides with the same digest.
Unchanged(path) ==
    /\ path \in DOMAIN diff_old
    /\ path \in DOMAIN new_file_infos
    /\ diff_old[path].hash = new_file_infos[path].hash

One(b) == IF b THEN 1 ELSE 0

\* C1: after compare_hashes every path of old is in exactly one of deleted,
\* modified, unchanged and the old sides of moves, every path of new is in
\* exactly one of added, modified, unchanged and the new sides of moves, the
\* result names no other path, and added (deleted) shares no path with the
\* new (old) sides of moves.
C1_Partition ==
    pc = "compared" =>
      /\ \A path \in DOMAIN diff_old :
           Count(deleted, path) + Count(modified, path) + CountMovedOld(path)
             + One(Unchanged(path)) = 1
      /\ \A path \in DOMAIN new_file_infos :
           Count(added, path) + Count(modified, path) + CountMovedNew(path)
             + One(Unchanged(path)) = 1
      /\ Range(deleted) \cup MovedOldPaths \subseteq DOMAIN diff_old
      /\ Range(added) \cup MovedNewPaths \subseteq DOMAIN new_file_infos
      /\ Range(modified) \subseteq DOMAIN diff_old \cap DOMAIN new_file_infos
      /\ Range(added) \cap MovedNewPaths = {}
      /\ Range(deleted) \cap MovedOldPaths = {}

\* A comparison with a move, a modified path and nothing else.
C1_Witness ==
    /\ pc = "compared"
    /\ Len(moves) = 1
    /\ Len(modified) = 1
    /\ added = <<>>
    /\ deleted = <<>>

\* The position of a path among the paths of its digest in a list.
RankIn(list, infos, path) ==
    Cardinality({j \in DOMAIN list :
                   /\ infos[list[j]].hash = infos[path].hash
                   /\ \E k \in DOMAIN list : list[k] = path /\ j <= k})

\* The pairs detect_moves tests: the i-th deleted and the i-th added path of
\* one digest, in the order of the two lists.
Candidate(old_path, new_path) ==
    /\ old_path \in Range(deleted_files)
    /\ new_path \in Range(added_files)
    /\ diff_old[old_path].hash = new_file_infos[new_path].hash
    /\ RankIn(deleted_files, diff_old, old_path)
         = RankIn(added_files, new_file_infos, new_path)

SizeDiffers(old_path, new_path) ==
    diff_old[old_path].size # new_file_infos[new_path].size

MtimeApart(old_path, new_path) ==
    \/ diff_old[old_path].mtime - new_file_infos[new_path].mtime >= 2
    \/ new_file_infos[new_path].mtime - diff_old[old_path].mtime >= 2

\* C2: every move (oldPath, newPath) has oldPath only in old, newPath only
\* in new, equal digests, equal sizes and mtimes less than 2 apart; a
\* candidate pair of equal digests that fails the size or the mtime test is
\* no move, its old path stays in deleted and its new path in added.
C2_MovesCompatible ==
    pc = "compared" =>
      /\ \A i \in DOMAIN moves :
           LET old_path == moves[i][1]
               new_path == moves[i][2]
           IN  /\ old_path \in DOMAIN diff_old \ DOMAIN new_file_infos
               /\ new_path \in DOMAIN new_file_infos \ DOMAIN diff_old
               /\ diff_old[old_path].hash = new_file_infos[new_path].hash
               /\ ~SizeDiffers(old_path, new_path)
               /\ ~MtimeApart(old_path, new_path)
      /\ \A old_path \in Range(deleted_files), new_path \in Range(added_files) :
           (/\ Candidate(old_path, new_path)
            /\ SizeDiffers(old_path, new_path) \/ MtimeApart(old_path, new_path))
           => /\ <<old_path, new_path>> \notin Range(moves)
              /\ old_path \in Range(deleted)
              /\ new_path \in Range(added)

\* Two candidate pairs of one digest: one accepted, one rejected for its
\* mtime alone.
C2_Witness ==
    /\ pc = "compared"
    /\ Len(moves) = 1
    /\ \E old_path \in Range(deleted_files), new_path \in Range(added_files) :
         /\ Candidate(old_path, new_path)
         /\ diff_old[old_path].hash = new_file_infos[moves[1][2]].hash
         /\ ~SizeDiffers(old_path, new_path)
         /\ MtimeApart(old_path, new_path)

DeletedWith(d) == {path \in Range(deleted_files) : diff_old[path].hash = d}

AddedWith(d) == {path \in Range(added_files) : new_file_infos[path].hash = d}

MovesWith(d) == {i \in DOMAIN moves : diff_old[moves[i][1]].hash = d}

\* C3: for every digest d, the moves of d are at most min(deleted paths of
\* d, added paths of d), and exactly that many when every deleted/added pair
\* of d passes the size and mtime check; no path is in two moves; what is
\* not moved stays in deleted or added. One deleted /a and one added /b of
\* equal digest and size, mtimes 1 apart, give moves = [(/a, /b)] and empty
\* added and deleted.
C3_MoveCount ==
    pc = "compared" =>
      /\ \A d \in Digests :
           LET nd == Cardinality(DeletedWith(d))
               na == Cardinality(AddedWith(d))
               nm == Cardinality(MovesWith(d))
           IN  /\ nm <= Min(nd, na)
               /\ (\A o \in DeletedWith(d), n \in AddedWith(d) :
                     ~SizeDiffers(o, n) /\ ~MtimeApart(o, n))
                  => nm = Min(nd, na)
               /\ Cardinality(DeletedWith(d) \cap Range(deleted)) = nd - nm
               /\ Cardinality(AddedWith(d) \cap Range(added)) = na - nm
      /\ \A i, j \in DOMAIN moves :
           (moves[i][1] = moves[j][1] \/ moves[i][2] = moves[j][2]) => i = j
      /\ (/\ DOMAIN diff_old = {"/a"}
          /\ DOMAIN new_file_infos = {"/b"}
          /\ diff_old["/a"].hash = new_file_infos["/b"].hash
          /\ diff_old["/a"].size = new_file_infos["/b"].size
          /\ Abs(diff_old["/a"].mtime - new_file_infos["/b"].mtime) = 1)
         => /\ moves = <<(<<"/a", "/b">>)>>
            /\ added = <<>>
            /\ deleted = <<>>

\* Two deleted and two added paths of one digest, all moved.
C3_Witness ==
    /\ pc = "compared"
    /\ Len(moves) = 2
    /\ \E d \in Digests : Cardinality(MovesWith(d)) = 2

ResultSets(r) ==
    [added |-> Range(r.added), deleted |-> Range(r.deleted),
     modified |-> Range(r.modified), moves |-> Range(r.moves)]

\* C4: for the same old and new, the membership of added, deleted, modified
\* and moves is the same whatever order the added-path set and the
\* deleted-path set are iterated in.
C4_Deterministic ==
    pc = "compared" =>
      \A afiles \in Orders(added_paths_of(diff_old, new_file_infos)),
         dfiles \in Orders(deleted_paths_of(diff_old, new_file_infos)),
         common \in Orders(common_paths_of(diff_old, new_file_infos)) :
        ResultSets(compare_hashes(diff_old, new_file_infos, afiles, dfiles,
                                  common))
          = [added |-> Range(added), deleted |-> Range(deleted),
             modified |-> Range(modified), moves |-> Range(moves)]

\* C5: a path present in old and new is in modified iff its digests differ;
\* with equal digests and a different size or mtime it is in none of added,
\* deleted, modified and moves.
C5_ModifiedIffDigest ==
    pc = "compared" =>
      \A path \in DOMAIN diff_old \cap DOMAIN new_file_infos :
        /\ path \in Range(modified)
             <=> diff_old[path].hash # new_file_infos[path].hash
        /\ (/\ diff_old[path].hash = new_file_infos[path].hash
            /\ \/ diff_old[path].size # new_file_infos[path].size
               \/ diff_old[path].mtime # new_file_infos[path].mtime)
           => path \notin Range(added) \cup Range(deleted) \cup Range(modified)
                            \cup MovedOldPaths \cup MovedNewPaths

\* A path of equal digest whose size and mtime both changed, beside a path
\* whose digest changed.
C5_Witness ==
    /\ pc = "compared"
    /\ \E p, q \in DOMAIN diff_old \cap DOMAIN new_file_infos :
         /\ diff_old[p].hash = new_file_infos[p].hash
         /\ diff_old[p].size # new_file_infos[p].size
         /\ diff_old[p].mtime # new_file_infos[p].mtime
         /\ diff_old[q].hash # new_file_infos[q].hash

\* C6: compare_hashes(S, S) has empty added, deleted, modified and moves.
C6_SelfDiffEmpty ==
    (pc = "compared" /\ new_file_infos = diff_old) =>
      /\ added = <<>>
      /\ deleted = <<>>
      /\ modified = <<>>
      /\ moves = <<>>

\* A snapshot of two files of one digest compared with itself.
C6_Witness ==
    /\ pc = "compared"
    /\ new_file_infos = diff_old
    /\ DOMAIN diff_old = {"/a", "/b"}
    /\ diff_old["/a"].hash = diff_old["/b"].hash

---------------------------------------------------------------------------
(* Properties of main() *)

\* C7: with no stored snapshot, a run on an empty directory creates a
\* baseline of zero records; the next run, on the directory now holding the
\* single file x.txt, compares and reports added = [x.txt] and nothing else.
C7_EmptyBaselineThenAdded ==
    /\ (/\ pc = "idle"
        /\ exit_status = "0"
        /\ loaded.kind = "missing"
        /\ reported = "baseline"
        /\ last_save = "ok"
        /\ new_file_infos = EmptySnapshot)
       => store = SnapshotFile(EmptySnapshot)
    /\ (/\ pc = "idle"
        /\ exit_status = "0"
        /\ loaded = SnapshotFile(EmptySnapshot)
        /\ last_save = "ok"
        /\ DOMAIN fs = {"x.txt"}
        /\ DOMAIN new_file_infos = {"x.txt"})
       => /\ reported = "changes"
          /\ added = <<"x.txt">>
          /\ deleted = <<>>
          /\ modified = <<>>
          /\ moves = <<>>

\* C8: a save is atomic for the whole file: every step leaves the store
\* file as it was or puts the complete new snapshot in its place, and no
\* invocation loads a partial file.
C8_SaveAtomic ==
    [][/\ store' = store \/ store' = SnapshotFile(new_file_infos')
       /\ loaded'.kind # "partial"]_vars

\* C9: when the save of a cycle that found changes fails, the change set
\* stays reported, and the next check_changes, in the same watch loop or in
\* the next invocation, compares against the baseline the failed cycle used.
C9_StaleBaselineAfterFailedSave ==
    [][/\ (pc \in {"check_save", "check_write"} /\ last_save' = "failed")
          => (reported' = "changes" /\ UNCHANGED resultvars)
       /\ (last_save = "failed" /\ reported = "changes" /\ CheckChanges)
          => diff_old' = diff_old]_vars

\* C10: whatever the store file holds, load_hash_db does not raise; a
\* missing or malformed file gives the empty snapshot and the run creates
\* the baseline as a first run does.
C10_LoadNeverRaises ==
    /\ exit_status # "load_raised"
    /\ (runs > 0 /\ loaded.kind # "snapshot" /\ pc # "idle")
       => (old_file_infos = EmptySnapshot
           /\ pc \in {"baseline", "baseline_save", "baseline_write"})

\* C11, as claimed: an invocation with an invalid hash algorithm name or
\* with a root that is no directory ends at once with a non-zero status,
\* and the store file stays as it was.
C11_ConfigErrorFatal ==
    [][(~is_dir' \/ algorithm' \notin ValidAlgorithms)
         => (pc' = "idle" /\ exit_status' = "1" /\ store' = store)]_vars

\* C11, amended: a root that is no directory ends the invocation with
\* status 1, nothing is loaded and the store file stays as it was; an
\* invalid hash algorithm name does not end it: the run hashes with sha256
\* and goes on to load the store.
C11_RootErrorFatal ==
    [][/\ ~is_dir'
          => /\ pc' = "idle"
             /\ exit_status' = "1"
             /\ loaded'.kind = "nothing"
             /\ store' = store
       /\ (Invoke /\ is_dir' /\ algorithm' \notin ValidAlgorithms)
          => /\ hash_func' = "sha256"
             /\ loaded' = store
             /\ exit_status' # "1"]_vars

\* An invocation on a root that is no directory, a baseline of one file
\* being stored.
C11_Witness ==
    /\ ~is_dir
    /\ exit_status = "1"
    /\ store.kind = "snapshot"
    /\ DOMAIN store.data = {"x.txt"}

\* C12: no path that should_ignore accepts under the run's patterns is in
\* the snapshot of a scan or in added, deleted, modified or moves of a
\* comparison of the run, whatever baseline the run loaded.
C12_IgnoredNeverReported ==
    \A path \in RunPaths :
      should_ignore(path, ignore_patterns)
        => path \notin DOMAIN new_file_infos \cup Range(added) \cup Range(deleted)
                         \cup Range(modified) \cup MovedOldPaths \cup MovedNewPaths

\* The files of the folder that the run's patterns do not ignore.
NotIgnored == {path \in DOMAIN fs : ~should_ignore(path, ignore_patterns)}

\* C13: whatever set of files fails to stat or to hash in a scan, the scan
\* completes and its snapshot holds exactly the non-ignored files outside
\* that set, each with the digest, mtime and size the folder has at the
\* scan; its record count is the number of files processed.
C13_ScanSkipsFailures ==
    [][(\/ pc = "baseline" /\ pc' = "baseline_save"
        \/ pc = "check" /\ cycles' = cycles + 1)
       => /\ DOMAIN new_file_infos' = NotIgnored \ scan_errors'
          /\ \A path \in DOMAIN new_file_infos' :
               new_file_infos'[path]
                 = [path |-> path, hash |-> fs[path].hash, mtime |-> fs[path].mtime,
                    size |-> fs[path].size]
          /\ Cardinality(DOMAIN new_file_infos')
               = Cardinality(NotIgnored) - Cardinality(scan_errors')]_vars

\* A scan of two files, one of which failed.
C13_Witness ==
    /\ pc \in {"baseline_save", "check_save"}
    /\ Cardinality(DOMAIN fs) = 2
    /\ Cardinality(scan_errors) = 1
    /\ scan_errors \subseteq DOMAIN fs
    /\ Cardinality(DOMAIN new_file_infos) = 1

\* C14: a file whose stat or hashing fails in the scan of a cycle is not in
\* the new snapshot and is not reported as deleted by that cycle.
C14_FailedHashNotDeleted ==
    /\ scan_errors \cap DOMAIN new_file_infos = {}
    /\ scan_errors \cap Range(deleted) = {}

\* C15: in watch mode a cycle that has started is not stopped before it
\* has persisted and reported: from the middle of a cycle (the changes are
\* found, the store is not yet written to the end) the loop goes on to the
\* rest of the save and to the sleep between two cycles, never to its end.
C15_StopOnlyBetweenCycles ==
    [][(watch /\ pc \in {"check_save", "check_write"})
         => pc' \in {"check_save", "check_write", "sleep"}]_vars

\* C16: when save_hash_db has written a non-empty snapshot S to the end,
\* load_hash_db of the store file does not fail and returns S: the same
\* paths, for each path the same digest, mtime and size, and a path field
\* equal to the key.
C16_SaveLoadRoundTrip ==
    [][(/\ pc \in {"baseline_write", "check_write"}
        /\ last_save' = "ok"
        /\ new_file_infos # EmptySnapshot)
       => LET r == load_hash_db(store')
          IN  /\ ~r.raised
              /\ DOMAIN r.infos = DOMAIN new_file_infos
              /\ \A path \in DOMAIN r.infos :
                   /\ r.infos[path].path = path
                   /\ r.infos[path].hash = new_file_infos[path].hash
                   /\ r.infos[path].mtime = new_file_infos[path].mtime
                   /\ r.infos[path].size = new_file_infos[path].size]_vars

\* A saved snapshot of two files that differ in digest, mtime and size.
C16_Witness ==
    /\ last_save = "ok"
    /\ store = SnapshotFile(new_file_infos)
    /\ DOMAIN new_file_infos = {"x.txt", "z.log"}
    /\ new_file_infos["x.txt"].hash # new_file_infos["z.log"].hash
    /\ new_file_infos["x.txt"].mtime # new_file_infos["z.log"].mtime
    /\ new_file_infos["x.txt"].size # new_file_infos["z.log"].size

\* C17: when the save of a cycle that reported changes succeeds, the
\* in-memory baseline and the store both hold exactly the snapshot of that
\* cycle's scan, no record of the old baseline surviving unless the scan
\* produced it, and the next cycle of the loop compares against it.
C17_BaselineReplaced ==
    [][/\ (pc = "check_write" /\ last_save' = "ok")
          => /\ reported' = "changes"
             /\ old_file_infos' = new_file_infos'
             /\ store' = SnapshotFile(new_file_infos')
             /\ load_hash_db(store').infos = new_file_infos'
             /\ \A path \in DOMAIN diff_old' \ DOMAIN new_file_infos' :
                  path \notin DOMAIN old_file_infos' \cup DOMAIN store'.data
       /\ (/\ pc = "check"
           /\ cycles > 0
           /\ cycles' = cycles + 1
           /\ reported = "changes"
           /\ last_save = "ok")
          => diff_old' = new_file_infos]_vars

\* A cycle that reported a deleted file beside an added one has saved: the
\* deleted file's record is in the old baseline only.
C17_Witness ==
    /\ reported = "changes"
    /\ last_save = "ok"
    /\ pc = "sleep"
    /\ Len(deleted) = 1
    /\ Len(added) = 1
    /\ DOMAIN diff_old \ DOMAIN new_file_infos # {}

\* C18: a cycle that finds no change leaves the in-memory baseline and the
\* store file as they were and starts no save, also when a file of
\* unchanged digest has another mtime or size than its baseline record; the
\* next cycle of the loop compares against that same baseline, and each of
\* its moves has the size of the baseline record and an mtime less than 2
\* from the baseline record's.
C18_NoChangeNoWrite ==
    [][/\ (pc = "check" /\ cycles' = cycles + 1 /\ reported' = "no_changes")
          => /\ old_file_infos' = old_file_infos
             /\ store' = store
             /\ last_save' = "none"
             /\ pc' \in {"sleep", "idle"}
       /\ (/\ pc = "check"
           /\ cycles > 0
           /\ cycles' = cycles + 1
           /\ reported = "no_changes")
          => /\ diff_old' = diff_old
             /\ \A i \in DOMAIN moves' :
                  /\ diff_old[moves'[i][1]].size = new_file_infos'[moves'[i][2]].size
                  /\ Abs(diff_old[moves'[i][1]].mtime - new_file_infos'[moves'[i][2]].mtime)
                       < MoveWindow]_vars

\* x.txt got an mtime 2 later and another size, the cycle found no change
\* and kept the baseline and the store, then x.txt was renamed: the next
\* cycle compares the new name with the baseline's older record.
C18_Witness ==
    /\ pc = "check"
    /\ cycles = 1
    /\ reported = "no_changes"
    /\ DOMAIN old_file_infos = {"x.txt"}
    /\ DOMAIN new_file_infos = {"x.txt"}
    /\ new_file_infos["x.txt"].mtime = old_file_infos["x.txt"].mtime + 2
    /\ new_file_infos["x.txt"].size # old_file_infos["x.txt"].size
    /\ store = SnapshotFile(old_file_infos)
    /\ DOMAIN fs = {"z.log"}
    /\ fs["z.log"].hash = old_file_infos["x.txt"].hash
    /\ ignore_patterns = <<>>

\* The two snapshots have the same paths and, path by path, the same digest.
SameDigests(infos1, infos2) ==
    /\ DOMAIN infos1 = DOMAIN infos2
    /\ \A path \in DOMAIN infos1 : infos1[path].hash = infos2[path].hash

\* C19: in watch mode, between two cycles the in-memory baseline has the
\* paths and the digests of the latest scan, whether the save succeeded,
\* failed or was not tried; and a cycle whose scan has the paths and the
\* digests of the previous cycle's scan reports no change.
C19_ReportedOnce ==
    [][/\ (watch' /\ pc' = "sleep") => SameDigests(old_file_infos', new_file_infos')
       /\ (/\ pc = "check"
           /\ cycles > 0
           /\ cycles' = cycles + 1
           /\ SameDigests(new_file_infos', new_file_infos))
          => /\ reported' = "no_changes"
             /\ added' = <<>>
             /\ deleted' = <<>>
             /\ modified' = <<>>
             /\ moves' = <<>>]_vars

\* Between two cycles, after a cycle that reported a modified file and
\* whose save failed: the store still holds the older baseline.
C19_Witness ==
    /\ watch
    /\ pc = "sleep"
    /\ cycles = 1
    /\ reported = "changes"
    /\ Len(modified) = 1
    /\ last_save = "failed"
    /\ store = SnapshotFile(diff_old)

====
